---- MODULE Spec2Model ----
(***************************************************************************)
(* Closed-loop glucose regulation: the two-stage fuzzy dosing controller   *)
(* (HierarchicalFIS, src/src/controllers/fuzzy_controller.py) and the      *)
(* closed-loop driver (simulate_controller, src/src/simulation.py), with   *)
(* the controller wrapper HierarchicalFuzzyController, the patient         *)
(* (PatientModel, src/src/patient_model.py) and cost_function              *)
(* (src/src/tuning.py) in later sections.                                  *)
(*                                                                         *)
(* Numbers.  The program computes in binary floating point; the model      *)
(* computes in fixed point with floor division:                            *)
(*   membership degrees   integers 0..MfScale        (1.0 = MfScale)       *)
(*   glucose level        mg/dL, integers            (universe step 1)     *)
(*   glucose rate         0.01 mg/dL/min             (universe step 0.1)   *)
(*   glucose acceleration 0.001 mg/dL/min^2          (universe step 0.01)  *)
(*   doses                1/DoseStep of 0.01 units   (universe step 0.01)  *)
(*   max_dose             hundredths of a unit       (40 = 0.4, 100 = 1.0) *)
(*                                                                         *)
(* Library.  skfuzzy is modelled by what it does: trimf/trapmf sample a    *)
(* membership function on the universe grid, interp_membership             *)
(* interpolates the samples linearly, a rule fires with min (AND) and max  *)
(* (OR), the cuts of one consequent term accumulate with max, the          *)
(* consequent is defuzzified by the centroid of the clipped envelope over  *)
(* the universe (upsampled with the points where a term crosses its cut),  *)
(* and ControlSystemSimulation.compute() raises ValueError when that       *)
(* envelope has zero area.                                                 *)
(*                                                                         *)
(* Evaluation.  Intermediate results are named by binding them over a      *)
(* one-element set (Only), so that each is computed once.                  *)
(***************************************************************************)
EXTENDS Integers, Sequences, FiniteSets, TLC

VARIABLES
    max_dose,       \* HierarchicalFIS.max_dose, hundredths of a unit
    fis1_input,     \* self.fis1.input  : <<bg_level, bg_rate>>, or <<>>
    fis2_input,     \* self.fis2.input  : <<pre_dose, bg_accel>>, or <<>>
    fis1_output,    \* self.fis1.output : <<pre_dose>>, or <<>> without the key
    fis2_output,    \* self.fis2.output : <<insulin_dose>>, or <<>> without the key
    call,           \* the last compute_dose call: arguments and outcome
    ncalls,         \* compute_dose calls made on the instance
    history,        \* the compute_dose calls the instance received, in order
    controller,     \* simulate_controller: the kind of controller passed in
    pc,             \* simulate_controller: position in the loop body
    i,              \* simulate_controller: loop index
    G_prev,         \* simulate_controller: G_prev
    rate_prev,      \* simulate_controller: rate_prev
    G,              \* simulate_controller: G of the current iteration
    bg_rate,        \* simulate_controller: bg_rate of the current iteration
    bg_accel,       \* simulate_controller: bg_accel of the current iteration
    G_trace,        \* simulate_controller: G_trace
    doses,          \* simulate_controller: doses
    patient_G,      \* PatientModel.G
    step_returns,   \* values returned by patient.step, in call order
    ctrl_log,       \* calls made on the controller, in call order
    hfc,            \* a HierarchicalFuzzyController: prev_bg, prev_rate, ...
    fresh,          \* a controller constructed when hfc was last reset
    hfc_log,        \* policy and reset calls made on hfc, in call order
    fresh_log,      \* policy calls made on fresh, in call order
    patient,        \* a PatientModel: G, X, I, Gb, Ib, dt, t
    twin,           \* a second PatientModel constructed with the same parameters
    meals,          \* the meal schedule: carbs in grams by meal time
    insulin_doses,  \* the dose array given to PatientModel.simulate
    sim_out,        \* the G_trace returned by PatientModel.simulate
    stepped,        \* the step calls made on patient: dose, meal rate, return
    cost_args,      \* cost_function: glucose_trace, ref_level, min_level
    cost_result     \* cost_function: the value returned

fisVars == <<max_dose, fis1_input, fis2_input, fis1_output, fis2_output, call,
            ncalls, history>>
simVars == <<controller, pc, i, G_prev, rate_prev, G, bg_rate, bg_accel,
             G_trace, doses, patient_G, step_returns, ctrl_log>>
hfcVars == <<hfc, fresh, hfc_log, fresh_log>>
patVars == <<patient, twin, meals, insulin_doses, sim_out, stepped>>
costVars == <<cost_args, cost_result>>
vars == <<fisVars, simVars, hfcVars, patVars, costVars>>

---------------------------------------------------------------------------
(* Arithmetic helpers *)

Min(a, b) == IF a <= b THEN a ELSE b
Max(a, b) == IF a >= b THEN a ELSE b

\* np.clip(v, lo, hi)
Clip(v, lo, hi) == Max(lo, Min(hi, v))

\* the largest / smallest element of a non-empty set of integers
SetMax(S) == CHOOSE x \in S : \A y \in S : y <= x
SetMin(S) == CHOOSE x \in S : \A y \in S : x <= y

\* the element of a one-element set.  Only({ e(v) : v \in {d} }) evaluates d
\* once and names its value v in e.
Only(S) == CHOOSE v \in S : TRUE

---------------------------------------------------------------------------
(* Fixed-point resolutions and universe grids *)

MfScale == 1000     \* membership degree 1.0
DoseStep == 100     \* dose units per 0.01 (the dose universes' grid step)
RateStep == 10      \* rate units (0.01) per 0.1 (the rate universe's grid step)
AccelStep == 10     \* acceleration units (0.001) per 0.01 (its grid step)

LevelLo == 0
LevelHi == 400
RateLo == -500
RateHi == 500
AccelLo == -1000
AccelHi == 1000

DefaultMaxDose == 40        \* HierarchicalFIS(max_dose=0.4)
ComparisonMaxDose == 100    \* HierarchicalFIS(max_dose=1.0) in run_comparison
MaxDoses == {DefaultMaxDose, ComparisonMaxDose}

\* len(np.arange(0, max_dose + 0.1, 0.01)): grid points 0.00 .. max_dose + 0.09
DoseGridLen(md) == md + 10

---------------------------------------------------------------------------
(* skfuzzy membership generators, evaluated at one universe point *)

Trimf(x, a, b, c) ==
    IF x = b THEN MfScale
    ELSE IF a # b /\ a < x /\ x < b THEN ((x - a) * MfScale) \div (b - a)
    ELSE IF b # c /\ b < x /\ x < c THEN ((c - x) * MfScale) \div (c - b)
    ELSE 0

Trapmf(x, a, b, c, d) ==
    IF x < a \/ x > d THEN 0
    ELSE IF x >= c THEN Trimf(x, c, c, d)
    ELSE IF x <= b THEN Trimf(x, a, b, b)
    ELSE MfScale

\* the grid point of the universe lo, lo+step, ... at or below x
GridBelow(lo, step, x) == lo + ((x - lo) \div step) * step

\* interp_membership: linear interpolation at x between the sample y1 at grid
\* point x1 and the sample y2 at x1 + step, for x inside the universe
InterpMembership(x, x1, step, y1, y2) ==
    IF x = x1 THEN y1 ELSE y1 + ((y2 - y1) * (x - x1)) \div step

---------------------------------------------------------------------------
(* Linguistic variables of the two stages *)

LevelTerms == {"VL", "L", "N", "H", "VH"}
RateTerms  == {"N", "Z", "P", "VP"}
AccelTerms == {"N", "Z", "P"}
DoseTerms  == {"Z", "VL", "L", "M", "H", "VH"}

\* bg_level[...] of _build_fis1
LevelMf(t, x) ==
    CASE t = "VL" -> Trapmf(x, 0, 0, 50, 70)
      [] t = "L"  -> Trimf(x, 60, 75, 90)
      [] t = "N"  -> Trimf(x, 85, 100, 115)
      [] t = "H"  -> Trimf(x, 110, 130, 160)
      [] t = "VH" -> Trapmf(x, 150, 180, 400, 400)

\* bg_rate[...] of _build_fis1
RateMf(t, x) ==
    CASE t = "N"  -> Trapmf(x, -500, -500, -50, -10)
      [] t = "Z"  -> Trimf(x, -15, 0, 15)
      [] t = "P"  -> Trimf(x, 10, 40, 70)
      [] t = "VP" -> Trapmf(x, 60, 100, 500, 500)

\* bg_accel[...] of _build_fis2
AccelMf(t, x) ==
    CASE t = "N" -> Trapmf(x, -1000, -1000, -15, -2)
      [] t = "Z" -> Trimf(x, -10, 0, 10)
      [] t = "P" -> Trapmf(x, 2, 15, 1000, 1000)

\* pre_dose[...] of _build_fis1 and insulin_dose[...] of _build_fis2 (the same
\* breakpoints), in hundredths of a unit
OutBreaks ==
    [Z  |-> <<0, 0, 2>>,    VL |-> <<0, 10, 20>>,  L  |-> <<15, 30, 45>>,
     M  |-> <<40, 55, 70>>, H  |-> <<60, 80, 90>>, VH |-> <<85, 95, 100>>]

\* pre_dose[...] of _build_fis2 (the antecedent), in hundredths of a unit
PreBreaks ==
    [Z  |-> <<0, 0, 5>>,     VL |-> <<0, 20, 40>>,    L  |-> <<30, 50, 70>>,
     M  |-> <<60, 85, 110>>, H  |-> <<100, 120, 140>>, VH |-> <<130, 145, 150>>]

OutMf(t, x) ==
    Trimf(x, OutBreaks[t][1] * DoseStep, OutBreaks[t][2] * DoseStep,
             OutBreaks[t][3] * DoseStep)

PreMf(t, x) ==
    Trimf(x, PreBreaks[t][1] * DoseStep, PreBreaks[t][2] * DoseStep,
             PreBreaks[t][3] * DoseStep)

\* The consequent terms sampled on the widest dose universe of the model
OutTabLen == DoseGridLen(SetMax(MaxDoses))
OutTab == [t \in DoseTerms |-> [k \in 0..(OutTabLen - 1) |-> OutMf(t, k * DoseStep)]]

\* CrispValueCalculator.fuzz of each antecedent: the membership degree of the
\* crisp input in every term
FuzzLevel(x) ==
    [VL |-> LevelMf("VL", x), L |-> LevelMf("L", x), N |-> LevelMf("N", x),
     H  |-> LevelMf("H", x),  VH |-> LevelMf("VH", x)]

\* the membership of x in term t, interpolated between the samples of the
\* term on the universe
RateMembership(t, x, x1) ==
    InterpMembership(x, x1, RateStep, RateMf(t, x1), RateMf(t, x1 + RateStep))

AccelMembership(t, x, x1) ==
    InterpMembership(x, x1, AccelStep, AccelMf(t, x1), AccelMf(t, x1 + AccelStep))

PreMembership(t, x, x1) ==
    InterpMembership(x, x1, DoseStep, PreMf(t, x1), PreMf(t, x1 + DoseStep))

FuzzRate(x) ==
    Only({ [N  |-> RateMembership("N", x, x1), Z  |-> RateMembership("Z", x, x1),
            P  |-> RateMembership("P", x, x1), VP |-> RateMembership("VP", x, x1)] :
           x1 \in {GridBelow(RateLo, RateStep, x)} })

FuzzAccel(x) ==
    Only({ [N |-> AccelMembership("N", x, x1), Z |-> AccelMembership("Z", x, x1),
            P |-> AccelMembership("P", x, x1)] :
           x1 \in {GridBelow(AccelLo, AccelStep, x)} })

FuzzPre(x) ==
    Only({ [Z  |-> PreMembership("Z", x, x1),  VL |-> PreMembership("VL", x, x1),
            L  |-> PreMembership("L", x, x1),  M  |-> PreMembership("M", x, x1),
            H  |-> PreMembership("H", x, x1),  VH |-> PreMembership("VH", x, x1)] :
           x1 \in {GridBelow(0, DoseStep, x)} })

---------------------------------------------------------------------------
(* Rule bases.  A rule is [a, b, out]: term a of the first antecedent AND   *)
(* (the OR of the terms b of the second antecedent) -> term out; b = {}    *)
(* is a rule on the first antecedent alone.                                *)

Rules1 ==
    << [a |-> "VL", b |-> {},           out |-> "Z"],
       [a |-> "L",  b |-> {"N", "Z"},   out |-> "Z"],
       [a |-> "L",  b |-> {"P"},        out |-> "Z"],
       [a |-> "L",  b |-> {"VP"},       out |-> "VL"],
       [a |-> "N",  b |-> {"N"},        out |-> "Z"],
       [a |-> "N",  b |-> {"Z"},        out |-> "VL"],
       [a |-> "N",  b |-> {"P"},        out |-> "M"],
       [a |-> "N",  b |-> {"VP"},       out |-> "H"],
       [a |-> "H",  b |-> {"N"},        out |-> "L"],
       [a |-> "H",  b |-> {"Z"},        out |-> "M"],
       [a |-> "H",  b |-> {"P"},        out |-> "VH"],
       [a |-> "H",  b |-> {"VP"},       out |-> "VH"],
       [a |-> "VH", b |-> {"N"},        out |-> "M"],
       [a |-> "VH", b |-> {"Z"},        out |-> "H"],
       [a |-> "VH", b |-> {"P", "VP"},  out |-> "VH"] >>

Rules2 ==
    << [a |-> "Z",  b |-> {},          out |-> "Z"],
       [a |-> "VL", b |-> {"N"},       out |-> "Z"],
       [a |-> "VL", b |-> {"Z"},       out |-> "VL"],
       [a |-> "VL", b |-> {"P"},       out |-> "L"],
       [a |-> "L",  b |-> {"N"},       out |-> "VL"],
       [a |-> "L",  b |-> {"Z"},       out |-> "L"],
       [a |-> "L",  b |-> {"P"},       out |-> "M"],
       [a |-> "M",  b |-> {"N"},       out |-> "L"],
       [a |-> "M",  b |-> {"Z"},       out |-> "M"],
       [a |-> "M",  b |-> {"P"},       out |-> "H"],
       [a |-> "H",  b |-> {"N"},       out |-> "M"],
       [a |-> "H",  b |-> {"Z"},       out |-> "H"],
       [a |-> "H",  b |-> {"P"},       out |-> "VH"],
       [a |-> "VH", b |-> {"N"},       out |-> "H"],
       [a |-> "VH", b |-> {"Z", "P"},  out |-> "VH"] >>

\* ControlSystemSimulation.compute_rule: the firing strength of one rule
RuleStrength(rule, ma, mb) ==
    IF rule.b = {} THEN ma[rule.a]
    ELSE Min(ma[rule.a], SetMax({mb[t] : t \in rule.b}))

\* the cut of one consequent term: the accumulation (max) of the strengths
\* of the rules naming it
TermCut(t, rules, ma, mb) ==
    SetMax({RuleStrength(rules[r], ma, mb) :
                r \in {q \in DOMAIN rules : rules[q].out = t}})

Cuts(rules, ma, mb) ==
    [Z |-> TermCut("Z", rules, ma, mb), VL |-> TermCut("VL", rules, ma, mb),
     L |-> TermCut("L", rules, ma, mb), M  |-> TermCut("M", rules, ma, mb),
     H |-> TermCut("H", rules, ma, mb), VH |-> TermCut("VH", rules, ma, mb)]

---------------------------------------------------------------------------
(* Defuzzification: CrispValueCalculator.defuzz with defuzzify_method =     *)
(* 'centroid' over a universe of n grid points.  Between two grid points   *)
(* k and k+1 the upsampled universe (find_memberships) holds the points    *)
(* where a term's sampled membership crosses its cut; the envelope is the  *)
(* max over the terms of min(cut, membership), linear between consecutive  *)
(* points.  Doubled areas are summed so that every quantity is an integer. *)

\* the terms whose sampled membership crosses its cut strictly inside the
\* cell [k, k+1]
CrossingTerms(k, cut) ==
    { t \in DoseTerms :
        /\ OutTab[t][k] # OutTab[t][k + 1]
        /\ Min(OutTab[t][k], OutTab[t][k + 1]) < cut[t]
        /\ cut[t] < Max(OutTab[t][k], OutTab[t][k + 1]) }

\* interp_universe_fast: offsets (dose units from grid point k) of the points
\* the upsampled universe adds inside the cell [k, k+1], and the cell's end
CellOffsets(k, cut) ==
    {DoseStep} \cup
    { ((cut[t] - OutTab[t][k]) * DoseStep) \div (OutTab[t][k + 1] - OutTab[t][k]) :
        t \in CrossingTerms(k, cut) }

\* one term's clipped membership at offset o of cell k
Clipped(t, k, o, cut) ==
    Min(cut[t], OutTab[t][k] + ((OutTab[t][k + 1] - OutTab[t][k]) * o) \div DoseStep)

\* the aggregated output membership (accumulation by max) at offset o of cell k
Envelope(k, o, cut) == SetMax({ Clipped(t, k, o, cut) : t \in DoseTerms })

\* the aggregated output membership at grid point k
GridEnvelope(k, cut) == SetMax({ Min(cut[t], OutTab[t][k]) : t \in DoseTerms })

\* centroid(): one segment [o1, o2] of cell k with memberships y1, y2.
\* a is twice the area, w the moment of twice the area about grid point k.
Segment(o1, o2, y1, y2) ==
    [a |-> (o2 - o1) * (y1 + y2),
     w |-> (o2 - o1) * (y1 + y2) * o1
           + ((o2 - o1) * (o2 - o1) * (y1 + 2 * y2)) \div 3]

AddSegments(p, q) == [a |-> p.a + q.a, w |-> p.w + q.w]

\* centroid(): the segments of cell k from offset o1 (membership y1) on,
\* left to right over the remaining offsets
RECURSIVE CellSum(_, _, _, _, _)
CellSumTo(k, o1, y1, o2, rest, cut) ==
    Only({ Only({ AddSegments(sg, r) :
                    sg \in {Segment(o1, o2, y1, y2)},
                    r  \in {CellSum(k, o2, y2, rest \ {o2}, cut)} }) :
           y2 \in {IF o2 = DoseStep THEN GridEnvelope(k + 1, cut)
                                    ELSE Envelope(k, o2, cut)} })

CellSum(k, o1, y1, rest, cut) ==
    IF rest = {} THEN [a |-> 0, w |-> 0]
    ELSE Only({ CellSumTo(k, o1, y1, o2, rest, cut) : o2 \in {SetMin(rest)} })

\* centroid(): the cells lo .. hi-1.  A: twice the area; K: sum of (cell index
\* times twice the cell's area); W: sum of the cells' inner moments.
AddSums(p, q) == [A |-> p.A + q.A, K |-> p.K + q.K, W |-> p.W + q.W]

OneCell(k, c) == [A |-> c.a, K |-> k * c.a, W |-> c.w]

RECURSIVE CentroidSums(_, _, _)
CentroidSums(lo, hi, cut) ==
    IF hi <= lo THEN [A |-> 0, K |-> 0, W |-> 0]
    ELSE IF hi = lo + 1
         THEN Only({ OneCell(lo, c) :
                     c \in { Only({ CellSum(lo, 0, y0, offs \ {0}, cut) :
                                    y0   \in {GridEnvelope(lo, cut)},
                                    offs \in {CellOffsets(lo, cut)} }) } })
         ELSE Only({ Only({ AddSums(p, q) :
                            p \in {CentroidSums(lo, mid, cut)},
                            q \in {CentroidSums(mid, hi, cut)} }) :
                     mid \in {(lo + hi) \div 2} })

\* the centroid, in dose units, from the sums s (s.A > 0)
CentroidOf(s, rK) ==
    DoseStep * (s.K \div s.A) + (rK \div s.A) + (s.W \div s.A)
    + ((rK % s.A) + (s.W % s.A)) \div s.A

\* defuzz(): the centroid in dose units, or the zero-area failure
\* ("Total area is zero in defuzzification!")
Defuzz(n, cut) ==
    Only({ IF s.A = 0 THEN [raised |-> TRUE, value |-> 0]
           ELSE [raised |-> FALSE,
                 value  |-> Only({ CentroidOf(s, rK) :
                                   rK \in {DoseStep * (s.K % s.A)} })] :
           s \in {CentroidSums(0, n - 1, cut)} })

---------------------------------------------------------------------------
(* The two inference stages: input assignment, compute(), output lookup *)

\* self.fis1.compute() for (bg_level, bg_rate)
Fis1Compute(md, level, rate) ==
    Only({ Defuzz(DoseGridLen(md), cut) :
           cut \in { Only({ Cuts(Rules1, ma, mb) :
                            ma \in {FuzzLevel(level)},
                            mb \in {FuzzRate(rate)} }) } })

\* self.fis2.compute() for (pre_dose, bg_accel)
Fis2Compute(md, pre, accel) ==
    Only({ Defuzz(DoseGridLen(md), cut) :
           cut \in { Only({ Cuts(Rules2, ma, mb) :
                            ma \in {FuzzPre(pre)},
                            mb \in {FuzzAccel(accel)} }) } })

\* the two ControlSystemSimulation objects of an instance: the inputs
\* assigned to them and their output dictionaries (Unset: no entry)
NewFis == [in1 |-> <<>>, out1 |-> <<>>, in2 |-> <<>>, out2 |-> <<>>]

\* a compute() that returns normally when defuzzification fails
ComputeNeverRaises(res) == FALSE

\* compute() raises ValueError when the aggregated output has zero area
ComputeRaises(res) == res.raised

\* the output dictionary entry after compute(): a successful compute()
\* stores the consequent under its label, a failed one leaves the
\* dictionary as it was
OutputAfter(out, res) == IF res.raised THEN out ELSE <<res.value>>

\* the lookups self.fis1.output['pre_dose'] / self.fis2.output['insulin_dose'];
\* the except KeyError branches substitute 0 when the key is missing
OutputLookup(out) == IF out = <<>> THEN 0 ELSE out[1]

\* compute_dose from the second stage on, on instance f (stage 1 done),
\* given the clamped acceleration and the clamped pre_dose
SecondStage(md, f, accel, pre) ==
    Only({ IF ComputeRaises(s2)
           THEN [outcome |-> "ValueError", stage |-> 2, dose |-> 0,
                 pre_dose |-> pre, in1 |-> f.in1, in2 |-> <<pre, accel>>,
                 fis |-> [f EXCEPT !.in2 = <<pre, accel>>]]
           ELSE Only({ [outcome |-> "ok", stage |-> 2,
                        dose |-> Only({ Clip(d, 0, md * DoseStep) :
                                        d \in {OutputLookup(out2)} }),
                        pre_dose |-> pre, in1 |-> f.in1, in2 |-> <<pre, accel>>,
                        fis |-> [f EXCEPT !.in2 = <<pre, accel>>, !.out2 = out2]] :
                       out2 \in {OutputAfter(f.out2, s2)} }) :
           s2 \in {Fis2Compute(md, pre, accel)} })

\* compute_dose from the first stage on, on instance f, given the clamped
\* inputs
FirstStage(md, f, level, rate, accel) ==
    Only({ IF ComputeRaises(s1)
           THEN [outcome |-> "ValueError", stage |-> 1, dose |-> 0, pre_dose |-> 0,
                 in1 |-> <<level, rate>>, in2 |-> <<>>,
                 fis |-> [f EXCEPT !.in1 = <<level, rate>>]]
           ELSE Only({ Only({ SecondStage(md, g, accel, pre) :
                              pre \in { Only({ Clip(v, 0, md * DoseStep) :
                                               v \in {OutputLookup(g.out1)} }) } }) :
                       g \in { [f EXCEPT !.in1 = <<level, rate>>,
                                         !.out1 = OutputAfter(f.out1, s1)] } }) :
           s1 \in {Fis1Compute(md, level, rate)} })

\* HierarchicalFIS.compute_dose on instance f.  outcome "ok": dose returned;
\* outcome "ValueError": the exception compute() raised, propagated to the
\* caller (compute() is called outside the try blocks).  in1 / in2: the
\* inputs assigned to fis1 / fis2 by the call; fis: the instance afterwards.
ComputeDoseOn(md, f, bg_level_in, bg_rate_in, bg_accel_in) ==
    Only({ FirstStage(md, f, level, rate, accel) :
           level \in {Clip(bg_level_in, LevelLo, LevelHi)},
           rate  \in {Clip(bg_rate_in, RateLo, RateHi)},
           accel \in {Clip(bg_accel_in, AccelLo, AccelHi)} })

\* compute_dose on a newly constructed HierarchicalFIS(max_dose)
ComputeDose(md, bg_level_in, bg_rate_in, bg_accel_in) ==
    ComputeDoseOn(md, NewFis, bg_level_in, bg_rate_in, bg_accel_in)

---------------------------------------------------------------------------
(* A HierarchicalFIS instance and calls of its compute_dose *)

\* arguments the calls are drawn from: levels in mg/dL (below, inside and
\* above the universe), rates in 0.01 mg/dL/min, accelerations in
\* 0.001 mg/dL/min^2
Levels == {-20, 0, 87, 100, 130, 200, 450}
Rates  == {-600, -50, 0, 40}
Accels == {0, 10, 1500}

MaxCalls == 1       \* compute_dose calls made on one instance

Unset == <<>>
NoCall == [level |-> 0, rate |-> 0, accel |-> 0, outcome |-> "none",
           dose |-> 0, pre_dose |-> 0]

\* the record of one compute_dose call
CallRecord(level, rate, accel, r) ==
    [level |-> level, rate |-> rate, accel |-> accel, outcome |-> r.outcome,
     dose |-> r.dose, pre_dose |-> r.pre_dose]

\* self.fis2.input after the call: assigned only when stage 1 did not raise
Fis2InputAfter(r, before) == IF r.stage = 1 THEN before ELSE r.in2

\* the instance's two simulations as compute_dose finds them
FisState == [in1 |-> fis1_input, out1 |-> fis1_output,
             in2 |-> fis2_input, out2 |-> fis2_output]

\* the loop variables of simulate_controller when no episode is running
SimIdle ==
    /\ controller = "none"
    /\ pc = "idle"
    /\ i = 0
    /\ G_prev = 0
    /\ rate_prev = 0
    /\ G = 0
    /\ bg_rate = 0
    /\ bg_accel = 0
    /\ G_trace = <<>>
    /\ doses = <<>>
    /\ patient_G = 0
    /\ step_returns = <<>>
    /\ ctrl_log = <<>>

\* no HierarchicalFuzzyController has been constructed
HfcIdle ==
    /\ hfc = <<>>
    /\ fresh = <<>>
    /\ hfc_log = <<>>
    /\ fresh_log = <<>>

\* no PatientModel has been constructed
PatIdle ==
    /\ patient = <<>>
    /\ twin = <<>>
    /\ meals = <<>>
    /\ insulin_doses = <<>>
    /\ sim_out = <<>>
    /\ stepped = <<>>

\* cost_function has not been called
CostIdle ==
    /\ cost_args = <<>>
    /\ cost_result = <<>>

\* HierarchicalFIS.__init__
InitFIS ==
    /\ max_dose \in MaxDoses
    /\ fis1_input = Unset
    /\ fis2_input = Unset
    /\ fis1_output = Unset
    /\ fis2_output = Unset
    /\ call = NoCall
    /\ ncalls = 0
    /\ history = <<>>
    /\ SimIdle
    /\ HfcIdle
    /\ PatIdle
    /\ CostIdle

\* one call fis.compute_dose(level, rate, accel)
CallComputeDose ==
    /\ ncalls < MaxCalls
    /\ \E level \in Levels, rate \in Rates, accel \in Accels :
          \E r \in {ComputeDoseOn(max_dose, FisState, level, rate, accel)} :
              /\ call' = CallRecord(level, rate, accel, r)
              /\ history' = Append(history, CallRecord(level, rate, accel, r))
              /\ fis1_input' = r.in1
              /\ fis2_input' = Fis2InputAfter(r, fis2_input)
              /\ fis1_output' = r.fis.out1
              /\ fis2_output' = r.fis.out2
    /\ ncalls' = ncalls + 1
    /\ UNCHANGED <<max_dose, simVars, hfcVars, patVars, costVars>>

NextFIS == CallComputeDose

SpecFIS == InitFIS /\ [][NextFIS]_vars

---------------------------------------------------------------------------
(* simulate_controller(controller, patient, meals): the episode loop.      *)
(* Each iteration is two steps: the controller part (the glucose reading,  *)
(* the rate and acceleration estimates, the dose) and patient.step.        *)
(* patient.step is the environment here: it returns one of GlucoseValues.  *)
(* ctrl_log and step_returns record the calls made, in order; the field    *)
(* seen of a log entry is the number of patient.step calls that had        *)
(* returned when the entry was made.                                       *)

\* the controllers an episode is run with: the fuzzy controller
\* (compute_dose(bg_level, bg_rate, bg_accel)), a controller whose
\* compute_dose takes (glucose, step size), and PIDController, which has
\* policy() and reset() and no compute_dose
Controllers == {"HierarchicalFIS", "TwoArg", "PIDController"}

\* hasattr(controller, 'compute_dose')
HasComputeDose(c) == c \in {"HierarchicalFIS", "TwoArg"}

\* the number of positional arguments compute_dose takes
Arity(c) == CASE c = "HierarchicalFIS" -> 3
              [] c = "TwoArg"         -> 2
              [] OTHER                -> 0

\* a dispatch that always takes the except branch
AlwaysFallsBack(c) == TRUE

\* controller.compute_dose(G, bg_rate, bg_accel) raises TypeError
ThreeArgCallRaisesTypeError(c) == Arity(c) # 3

\* controller.compute_dose(G, patient.dt) raises TypeError
TwoArgCallRaisesTypeError(c) == Arity(c) # 2

NSteps == 4               \* len(times); 288 for dt = 5 min
StepMinutes == 5          \* patient.dt * 60
InitialReading == 90      \* G at i = 0
GPrevFromElsewhere == 90 + 30   \* a previous reading that is not the first reading
InitialGPrev == 90        \* G_prev before the loop
InitialRatePrev == 0      \* rate_prev before the loop

GlucoseValues == {80, 90, 130}      \* values patient.step returns, mg/dL
InitialGlucose == {90, 120}         \* PatientModel(initial_glucose = ...)
TwoArgDoses == {0, 500}             \* doses a two-argument controller returns

\* a reading taken from the slot patient.step has not written yet
ReadsCurrentSlot(idx, trace) == trace[idx]

\* G = G_trace[i-1] if i > 0 else 90
CurrentGlucose(idx, trace) == IF idx > 0 THEN trace[idx - 1] ELSE InitialReading

\* bg_rate = (G - G_prev) / (patient.dt * 60), in 0.01 mg/dL/min
BgRate(g, gprev) == ((g - gprev) * 100) \div StepMinutes

\* bg_accel = (bg_rate - rate_prev) / (patient.dt * 60), in 0.001 mg/dL/min^2
BgAccel(rate, rprev) == ((rate - rprev) * 10) \div StepMinutes

ZeroArray == [k \in 0..(NSteps - 1) |-> 0]

LogEntry(idx, form, args, outcome, dose, seen) ==
    [idx |-> idx, form |-> form, args |-> args, outcome |-> outcome,
     dose |-> dose, seen |-> seen]

\* the state at the top of the loop
Init ==
    /\ controller \in Controllers
    /\ max_dose \in (IF controller = "HierarchicalFIS" THEN MaxDoses
                                                       ELSE {DefaultMaxDose})
    /\ fis1_input = Unset
    /\ fis2_input = Unset
    /\ fis1_output = Unset
    /\ fis2_output = Unset
    /\ call = NoCall
    /\ ncalls = 0
    /\ history = <<>>
    /\ patient_G \in InitialGlucose
    /\ pc = "loop"
    /\ i = 0
    /\ G_prev = InitialGPrev
    /\ rate_prev = InitialRatePrev
    /\ G = 0
    /\ bg_rate = 0
    /\ bg_accel = 0
    /\ G_trace = ZeroArray
    /\ doses = ZeroArray
    /\ step_returns = <<>>
    /\ ctrl_log = <<>>
    /\ HfcIdle
    /\ PatIdle
    /\ CostIdle

\* the three-argument call on the fuzzy controller
DoseThreeArg(g, rate, accel) ==
    \E r \in {ComputeDoseOn(max_dose, FisState, g, rate, accel)} :
        /\ call' = CallRecord(g, rate, accel, r)
        /\ history' = Append(history, CallRecord(g, rate, accel, r))
        /\ fis1_input' = r.in1
        /\ fis2_input' = Fis2InputAfter(r, fis2_input)
        /\ fis1_output' = r.fis.out1
        /\ fis2_output' = r.fis.out2
        /\ ncalls' = ncalls + 1
        /\ ctrl_log' = Append(ctrl_log,
               LogEntry(i, "three", <<g, rate, accel>>, r.outcome, r.dose,
                        Len(step_returns)))
        /\ IF r.outcome = "ok"
           THEN /\ doses' = [doses EXCEPT ![i] = r.dose]
                /\ pc' = "step"
                /\ G_prev' = g
                /\ rate_prev' = rate
           ELSE /\ pc' = "raised"
                /\ UNCHANGED <<doses, G_prev, rate_prev>>

\* the three-argument call raises TypeError; the except branch calls
\* compute_dose(G, patient.dt)
DoseTwoArg(g, rate, accel) ==
    /\ UNCHANGED <<fis1_input, fis2_input, fis1_output, fis2_output, call, ncalls,
                 history>>
    /\ IF TwoArgCallRaisesTypeError(controller)
       THEN /\ ctrl_log' = ctrl_log
                  \o << LogEntry(i, "three", <<g, rate, accel>>, "TypeError", 0,
                                 Len(step_returns)),
                        LogEntry(i, "two", <<g, StepMinutes>>, "TypeError", 0,
                                 Len(step_returns)) >>
            /\ pc' = "raised"
            /\ UNCHANGED <<doses, G_prev, rate_prev>>
       ELSE \E d \in TwoArgDoses :
            /\ ctrl_log' = ctrl_log
                  \o << LogEntry(i, "three", <<g, rate, accel>>, "TypeError", 0,
                                 Len(step_returns)),
                        LogEntry(i, "two", <<g, StepMinutes>>, "ok", d,
                                 Len(step_returns)) >>
            /\ doses' = [doses EXCEPT ![i] = d]
            /\ pc' = "step"
            /\ G_prev' = g
            /\ rate_prev' = rate

\* no compute_dose attribute: no call, doses[i] keeps its 0
DoseNone(g, rate, accel) ==
    /\ ctrl_log' = Append(ctrl_log,
           LogEntry(i, "none", <<g, rate, accel>>, "skipped", 0, Len(step_returns)))
    /\ pc' = "step"
    /\ G_prev' = g
    /\ rate_prev' = rate
    /\ UNCHANGED <<doses, fis1_input, fis2_input, fis1_output, fis2_output,
                 call, ncalls, history>>

\* loop body up to the update of G_prev and rate_prev
ControllerStep ==
    /\ pc = "loop"
    /\ i < NSteps
    /\ \E g \in {CurrentGlucose(i, G_trace)} :
       \E rate \in {BgRate(g, G_prev)} :
       \E accel \in {BgAccel(rate, rate_prev)} :
          /\ G' = g
          /\ bg_rate' = rate
          /\ bg_accel' = accel
          /\ IF ~HasComputeDose(controller) THEN DoseNone(g, rate, accel)
             ELSE IF ThreeArgCallRaisesTypeError(controller)
                  THEN DoseTwoArg(g, rate, accel)
                  ELSE DoseThreeArg(g, rate, accel)
    /\ UNCHANGED <<max_dose, controller, i, G_trace, patient_G, step_returns,
                   hfcVars, patVars, costVars>>

\* G_trace[i] = patient.step(doses[i], meal_rate), and the loop increment
PatientStep ==
    /\ pc = "step"
    /\ \E g \in GlucoseValues :
          /\ G_trace' = [G_trace EXCEPT ![i] = g]
          /\ patient_G' = g
          /\ step_returns' = Append(step_returns,
                 [idx |-> i, G |-> g, insulin |-> doses[i], logged |-> Len(ctrl_log)])
    /\ i' = i + 1
    /\ pc' = IF i + 1 < NSteps THEN "loop" ELSE "done"
    /\ UNCHANGED <<fisVars, controller, G_prev, rate_prev, G, bg_rate, bg_accel,
                   doses, ctrl_log, hfcVars, patVars, costVars>>

Next == ControllerStep \/ PatientStep

Spec == Init /\ [][Next]_vars

---------------------------------------------------------------------------
(* Properties of HierarchicalFIS.compute_dose (checked under SpecFIS) *)

Called == call.outcome # "none"
Returned == call.outcome = "ok"

VeryLowLowerBound == 0     \* level['VL'] = trapmf [0, 0, 50, 70]
NormalFoot == 85           \* level['N'] = trimf [85, 100, 115]

\* the aggregation of a stage is all zero over the output universe: every
\* fired rule's clipped consequent is zero at every grid point
ZeroAggregation(md, cut) ==
    \A k \in 0..(DoseGridLen(md) - 1) : GridEnvelope(k, cut) = 0

Stage1Degenerate(md, level_in, rate_in) ==
    Only({ ZeroAggregation(md, cut) :
           cut \in { Only({ Cuts(Rules1, ma, mb) :
                            ma \in {FuzzLevel(Clip(level_in, LevelLo, LevelHi))},
                            mb \in {FuzzRate(Clip(rate_in, RateLo, RateHi))} }) } })

Stage2Degenerate(md, pre, accel_in) ==
    Only({ ZeroAggregation(md, cut) :
           cut \in { Only({ Cuts(Rules2, ma, mb) :
                            ma \in {FuzzPre(pre)},
                            mb \in {FuzzAccel(Clip(accel_in, AccelLo, AccelHi))} }) } })

\* C1: every compute_dose call, for any level, rate and acceleration
\* (out-of-range and degenerate inputs included), returns a dose d with
\* 0 <= d <= max_dose of the instance.
C1_DoseWithinBounds ==
    Called => /\ Returned
              /\ 0 <= call.dose
              /\ call.dose <= max_dose * DoseStep

\* C2: for a glucose level at or below the lower bound of the Very Low set,
\* compute_dose returns exactly 0, whatever the rate and the acceleration.
C2_ZeroAtVeryLow ==
    (Called /\ call.level <= VeryLowLowerBound) => (Returned /\ call.dose = 0)

\* C3: with rate and acceleration fixed, for levels L1 <= L2 between the
\* Normal set and the Very High set, compute_dose(L1, ..) <= compute_dose(L2, ..),
\* for the default max_dose and for max_dose = 1.0.
C3_MonotoneInLevel ==
    (Called /\ NormalFoot <= call.level) =>
        \A L2 \in Levels :
            (call.level <= L2 /\ L2 <= LevelHi) =>
                \E r2 \in {ComputeDose(max_dose, L2, call.rate, call.accel)} :
                    /\ Returned
                    /\ r2.outcome = "ok"
                    /\ call.dose <= r2.dose

\* C4: when the inference of stage 1 or of stage 2 is degenerate (all-zero
\* aggregation), compute_dose does not raise and the call returns dose 0.
C4_DegenerateYieldsZero ==
    Called =>
        IF Stage1Degenerate(max_dose, call.level, call.rate)
        THEN Returned /\ call.dose = 0
        ELSE Stage2Degenerate(max_dose, call.pre_dose, call.accel)
                 => (Returned /\ call.dose = 0)

\* C5: for any level, rate and acceleration, out-of-range values included,
\* compute_dose raises no error and returns the dose of the call with each
\* input clamped to its universe.
C5_ClampEquivalence ==
    Called =>
        \E r \in {ComputeDose(max_dose, Clip(call.level, LevelLo, LevelHi),
                              Clip(call.rate, RateLo, RateHi),
                              Clip(call.accel, AccelLo, AccelHi))} :
            /\ Returned
            /\ r.outcome = "ok"
            /\ r.dose = call.dose

---------------------------------------------------------------------------
(* Properties of simulate_controller (checked under Spec) *)

\* the glucose reading of index k, from what patient.step has returned: the
\* return of index k-1, and 90 at index 0
ReadingAt(k) == IF k = 0 THEN 90 ELSE step_returns[k].G

\* the rate estimate of index k from the readings of indices k and k-1
RateAt(k) == IF k = 0 THEN 0 ELSE 20 * (ReadingAt(k) - ReadingAt(k - 1))

\* the acceleration estimate of index k from the rates of indices k and k-1
AccelAt(k) == IF k = 0 THEN 0 ELSE 2 * (RateAt(k) - RateAt(k - 1))

\* the time indices whose dose has been settled
Settled == IF pc = "step" THEN 0..i ELSE 0..(i - 1)

\* C6: the dose of an index is computed before patient.step is called for
\* that index, and the glucose, rate and acceleration given to the controller
\* at an index are computed from the values patient.step had returned at the
\* earlier indices only.
C6_DriverOrdering ==
    /\ \A n \in 1..Len(ctrl_log) :
          /\ ctrl_log[n].seen = ctrl_log[n].idx
          /\ ctrl_log[n].seen <= Len(step_returns)
          /\ ctrl_log[n].args[1] = ReadingAt(ctrl_log[n].idx)
          /\ ctrl_log[n].form # "two" =>
                /\ ctrl_log[n].args[2] = RateAt(ctrl_log[n].idx)
                /\ ctrl_log[n].args[3] = AccelAt(ctrl_log[n].idx)
    /\ \A n \in 1..Len(step_returns) :
          /\ step_returns[n].idx = n - 1
          /\ step_returns[n].logged \in 1..Len(ctrl_log)
          /\ ctrl_log[step_returns[n].logged].idx = n - 1
          /\ ctrl_log[step_returns[n].logged].outcome \in {"ok", "skipped"}
          /\ step_returns[n].insulin = ctrl_log[step_returns[n].logged].dose

\* an episode of the fuzzy controller ran to its end on a trace that moved
C6_Witness ==
    /\ controller = "HierarchicalFIS"
    /\ pc = "done"
    /\ Len(step_returns) = NSteps
    /\ Len(ctrl_log) = NSteps
    /\ step_returns[1].G # step_returns[2].G
    /\ step_returns[2].insulin > 0

\* C7: at the first time index the controller is invoked with bg_rate = 0 and
\* bg_accel = 0, for every initial glucose of the patient and every controller.
C7_FirstStepZeroRate ==
    /\ \A n \in 1..Len(ctrl_log) :
          (ctrl_log[n].idx = 0 /\ ctrl_log[n].form = "three") =>
              (ctrl_log[n].args[2] = 0 /\ ctrl_log[n].args[3] = 0)
    /\ (i = 0 /\ pc # "loop") => (bg_rate = 0 /\ bg_accel = 0)

\* the first call has been made for a patient that starts away from 90
C7_Witness ==
    /\ i = 0
    /\ pc = "step"
    /\ patient_G = 120
    /\ Len(ctrl_log) >= 1
    /\ ctrl_log[1].form = "three"

\* C8: if every value patient.step returns in an episode is the same
\* constant c, then bg_rate and bg_accel are both 0 at every index after the
\* first.
C8_ConstantTraceZeroRate ==
    ( /\ i >= 1
      /\ pc # "loop"
      /\ \A n \in 1..Len(step_returns) : step_returns[n].G = step_returns[1].G )
    => (bg_rate = 0 /\ bg_accel = 0)

\* C9: for a controller with the three-argument compute_dose the dose
\* recorded at every step is the result of the three-argument call and the
\* two-argument form is never invoked; for a controller with the
\* two-argument compute_dose the recorded dose is the result of
\* compute_dose(G, patient.dt).
C9_Dispatch ==
    /\ controller = "HierarchicalFIS" =>
          /\ \A n \in 1..Len(ctrl_log) :
                ctrl_log[n].form = "three" /\ ctrl_log[n].outcome # "TypeError"
          /\ \A k \in Settled :
                \E n \in 1..Len(ctrl_log) :
                    /\ ctrl_log[n].idx = k
                    /\ ctrl_log[n].outcome = "ok"
                    /\ doses[k] = ctrl_log[n].dose
    /\ controller = "TwoArg" =>
          \A k \in Settled :
              \E n \in 1..Len(ctrl_log) :
                  /\ ctrl_log[n].idx = k
                  /\ ctrl_log[n].form = "two"
                  /\ ctrl_log[n].args = <<ReadingAt(k), 5>>
                  /\ ctrl_log[n].outcome = "ok"
                  /\ doses[k] = ctrl_log[n].dose

\* an episode of the two-argument controller ran to its end with a dose
\* taken from the fallback call
C9_Witness ==
    /\ controller = "TwoArg"
    /\ pc = "done"
    /\ \E n \in 1..Len(ctrl_log) :
          /\ ctrl_log[n].form = "two"
          /\ ctrl_log[n].dose = 500
          /\ doses[ctrl_log[n].idx] = 500

\* C10: an episode run with a PIDController records at every step the dose
\* the controller's compute_dose(glucose, step_size) returned.
C10_PidDoseRecorded ==
    controller = "PIDController" =>
        \A k \in Settled :
            \E n \in 1..Len(ctrl_log) :
                /\ ctrl_log[n].idx = k
                /\ ctrl_log[n].form = "two"
                /\ ctrl_log[n].outcome = "ok"
                /\ doses[k] = ctrl_log[n].dose

---------------------------------------------------------------------------
(* HierarchicalFuzzyController: policy() and reset().                      *)
(* The controller is the record of its fields; an optional field is <<>>    *)
(* when it is None (prev_bg) or when the attribute does not exist           *)
(* (prev_state), and <<v>> when it holds v.  fresh is a controller          *)
(* constructed at the moment hfc was last reset (or constructed), and is    *)
(* given every observation hfc is given from then on.                       *)

CGMValues == {90, 100}          \* observation.CGM, mg/dL
SampleTimes == {5}              \* kwargs['sample_time'], minutes
InitStates == {0}               \* init_state
MaxPolicyCalls == 4             \* policy calls made on hfc
MaxResets == 1                  \* reset calls made on hfc

\* HierarchicalFuzzyController.__init__(init_state)
NewController(init_state) ==
    [init_state |-> init_state, state |-> init_state,
     prev_bg |-> <<>>, prev_rate |-> 0, prev_state |-> <<>>]

\* policy: rate, in 0.01 mg/dL/min
PolicyRate(c, bg, sample_time) ==
    IF c.prev_bg = <<>> THEN 0
    ELSE ((bg - c.prev_bg[1]) * 100) \div sample_time

\* policy: accel, in 0.001 mg/dL/min^2
PolicyAccel(c, rate, sample_time) ==
    IF c.prev_bg = <<>> THEN 0
    ELSE ((rate - c.prev_rate) * 10) \div sample_time

\* a policy that leaves prev_rate as it is when prev_bg is None
KeepsRateOnFirstCall(c, bg, rate) ==
    [c EXCEPT !.prev_bg = <<bg>>,
              !.prev_rate = IF c.prev_bg = <<>> THEN c.prev_rate ELSE rate]

\* policy: self.prev_bg = bg; self.prev_rate = rate
AfterPolicy(c, bg, rate) == [c EXCEPT !.prev_bg = <<bg>>, !.prev_rate = rate]

\* policy: the call on self.fis (a HierarchicalFIS with the default
\* max_dose) and the Action: basal = dose / sample_time, bolus = 0; or the
\* exception compute_dose raised
PolicyResult(bg, rate, accel, sample_time) ==
    Only({ [kind |-> "policy", bg |-> bg, rate |-> rate, accel |-> accel,
            outcome |-> r.outcome,
            basal |-> IF r.outcome = "ok" THEN r.dose \div sample_time ELSE 0,
            bolus |-> 0] :
           r \in {ComputeDose(DefaultMaxDose, bg, rate, accel)} })

\* policy(observation, reward, done, sample_time = ...) on controller c:
\* the controller after the call and what the call did
Policy(c, bg, sample_time) ==
    Only({ Only({ [ctl |-> AfterPolicy(c, bg, rate),
                   res |-> PolicyResult(bg, rate, accel, sample_time)] :
                  accel \in {PolicyAccel(c, rate, sample_time)} }) :
           rate \in {PolicyRate(c, bg, sample_time)} })

\* reset()
Reset(c) == [c EXCEPT !.state = c.init_state, !.prev_bg = <<>>,
                      !.prev_state = <<0>>]

PolicyCalls(log) == Cardinality({n \in 1..Len(log) : log[n].kind = "policy"})
ResetCalls(log) == Cardinality({n \in 1..Len(log) : log[n].kind = "reset"})

InitHfc ==
    /\ \E s \in InitStates :
          /\ hfc = NewController(s)
          /\ fresh = NewController(s)
    /\ hfc_log = <<>>
    /\ fresh_log = <<>>
    /\ max_dose = DefaultMaxDose
    /\ fis1_input = Unset
    /\ fis2_input = Unset
    /\ fis1_output = Unset
    /\ fis2_output = Unset
    /\ call = NoCall
    /\ ncalls = 0
    /\ history = <<>>
    /\ SimIdle
    /\ PatIdle
    /\ CostIdle

\* one policy call on hfc, and the same observation given to fresh
PolicyCall ==
    /\ PolicyCalls(hfc_log) < MaxPolicyCalls
    /\ \E bg \in CGMValues, st \in SampleTimes :
       \E p \in {Policy(hfc, bg, st)}, q \in {Policy(fresh, bg, st)} :
          /\ hfc' = p.ctl
          /\ hfc_log' = Append(hfc_log, p.res)
          /\ fresh' = q.ctl
          /\ fresh_log' = Append(fresh_log, q.res)
    /\ UNCHANGED <<fisVars, simVars, patVars, costVars>>

\* one reset call on hfc; fresh is constructed anew
ResetCall ==
    /\ ResetCalls(hfc_log) < MaxResets
    /\ hfc' = Reset(hfc)
    /\ hfc_log' = Append(hfc_log, [kind |-> "reset", prev_rate |-> hfc.prev_rate])
    /\ fresh' = NewController(hfc.init_state)
    /\ fresh_log' = <<>>
    /\ UNCHANGED <<fisVars, simVars, patVars, costVars>>

NextHfc == PolicyCall \/ ResetCall

SpecHfc == InitHfc /\ [][NextHfc]_vars

\* the index in hfc_log of the last reset call, 0 when there is none
LastReset == SetMax({0} \cup {n \in 1..Len(hfc_log) : hfc_log[n].kind = "reset"})

\* the policy calls made on hfc since its last reset
SinceReset == SubSeq(hfc_log, LastReset + 1, Len(hfc_log))

\* C11: after reset() the previous-glucose field and the previous-rate field
\* hold their values of right after construction (prev_bg None, prev_rate 0),
\* whatever policy calls preceded the reset.
C11_ResetRestoresState ==
    (LastReset > 0 /\ LastReset = Len(hfc_log)) =>
        (hfc.prev_bg = <<>> /\ hfc.prev_rate = 0)

\* C19: after reset() the (level, rate, acceleration) triples passed to
\* compute_dose and the Actions returned on the following policy calls equal
\* those of a freshly constructed controller given the same observations; the
\* first call after reset uses rate 0 and acceleration 0, and the second
\* call's acceleration is computed from a previous rate of 0.
C19_ResetEquivalentToFresh ==
    LastReset > 0 =>
        /\ SinceReset = fresh_log
        /\ Len(SinceReset) >= 1 =>
              (SinceReset[1].rate = 0 /\ SinceReset[1].accel = 0)
        /\ Len(SinceReset) >= 2 =>
              SinceReset[2].accel = 2 * SinceReset[2].rate

\* a reset that followed a policy call with a non-zero rate, and two policy
\* calls after it, the second with a rate that is not 0
C19_Witness ==
    /\ LastReset > 0
    /\ hfc_log[LastReset].prev_rate # 0
    /\ Len(SinceReset) >= 2
    /\ SinceReset[2].rate # 0
    /\ SinceReset[2].outcome = "ok"

---------------------------------------------------------------------------
(* PatientModel (src/src/patient_model.py) and meal_absorption.            *)
(* Fixed point: time and dt in minutes; G in 0.01 mg/dL; I in 0.01 mU/L;   *)
(* X in 1e-6 (per hour); meal rates in 0.001 mg/dL/min; doses in 1e-4      *)
(* units; rate parameters per minute in thousandths.  odeint over          *)
(* [0, dt] is modelled by explicit Euler steps of one minute on the        *)
(* per-minute form of dynamics.                                            *)

GScale == 100               \* G units per mg/dL
P1 == 28                    \* _p1_per_min = 0.028
P2 == 25                    \* _p2_per_min = 0.025
P3Inverse == 2              \* _p3_per_min = 5.0e-05: X units per 1/2 I unit
NClear == 200               \* _n_per_min = 0.2
Gamma == 20                 \* gamma_mU_per_unit = 20.0
BasalGlucose == 9000        \* Gb = 90.0
DefaultInsulin == 1500      \* initial_insulin = 15.0
GlucosePerGram == 3500      \* glucose_per_gram = 3.5, in 0.001 mg/dL
ExpScale == 1000            \* exp(0) = 1.0
DriverTau == 30             \* simulate_controller: meal_absorption(..., tau=30)
SimulateTau == 45           \* PatientModel.simulate: meal_absorption(..., tau=45)

\* exp(-5 / tau), in 1/ExpScale, for the two time constants in use
Decay5(tau) == CASE tau = 30 -> 846
                 [] tau = 45 -> 895

\* np.exp(-dt_minutes / tau) for dt_minutes a multiple of 5, in 1/ExpScale
RECURSIVE ExpNeg(_, _)
ExpNeg(minutes, tau) ==
    IF minutes <= 0 THEN ExpScale
    ELSE (ExpNeg(minutes - 5, tau) * Decay5(tau)) \div ExpScale

\* meal_absorption(t, meal_time, carbs, tau); t and meal_time in minutes
MealAbsorption(t, meal_time, carbs, tau) ==
    IF t < meal_time THEN 0
    ELSE (((carbs * GlucosePerGram) \div tau) * ExpNeg(t - meal_time, tau))
         \div ExpScale

\* meal_rate: the sum of meal_absorption over the meals of the schedule
RECURSIVE MealRateOver(_, _, _, _)
MealRateOver(times, t, schedule, tau) ==
    IF times = {} THEN 0
    ELSE Only({ MealAbsorption(t, mt, schedule[mt], tau)
                + MealRateOver(times \ {mt}, t, schedule, tau) :
                mt \in {SetMin(times)} })

MealRate(t, schedule, tau) == MealRateOver(DOMAIN schedule, t, schedule, tau)

\* PatientModel.__init__(initial_glucose, initial_insulin, dt_hours)
NewPatient(initial_glucose, initial_insulin, dt) ==
    [G |-> initial_glucose, X |-> 0, I |-> initial_insulin,
     Gb |-> BasalGlucose, Ib |-> initial_insulin, dt |-> dt, t |-> 0]

\* dynamics: dt_minutes = self.dt * 60.0 if self.dt > 0 else 1.0
DtMinutes(dt) == IF dt > 0 THEN dt ELSE 1

\* dynamics without the p1 * Gb term: glucose decays towards 0
DynamicsWithoutBasal(p, st, insulin_dose, meal_rate) ==
    [G |-> - (P1 * st.G) \div 1000
           - ((st.X \div 60) * st.G) \div 1000000
           + meal_rate \div 10,
     X |-> (st.I - st.Ib) \div P3Inverse - (P2 * st.X) \div 1000,
     I |-> (Gamma * insulin_dose) \div (100 * DtMinutes(p.dt))
           - (NClear * (st.I - st.Ib)) \div 1000]

\* dynamics: [dGdt, dXdt, dIdt] per minute at state st of patient p
Dynamics(p, st, insulin_dose, meal_rate) ==
    [G |-> (P1 * st.Gb - P1 * st.G) \div 1000
           - ((st.X \div 60) * st.G) \div 1000000
           + meal_rate \div 10,
     X |-> (st.I - st.Ib) \div P3Inverse - (P2 * st.X) \div 1000,
     I |-> (Gamma * insulin_dose) \div (100 * DtMinutes(p.dt))
           - (NClear * (st.I - st.Ib)) \div 1000]

\* odeint(self.dynamics, state0, [0.0, self.dt], ...): the state after
\* `minutes` minutes
RECURSIVE Integrate(_, _, _, _, _)
Integrate(p, st, minutes, insulin_dose, meal_rate) ==
    IF minutes <= 0 THEN st
    ELSE Only({ Integrate(p, nx, minutes - 1, insulin_dose, meal_rate) :
                nx \in { Only({ [st EXCEPT !.G = st.G + d.G, !.X = st.X + d.X,
                                           !.I = st.I + d.I] :
                                d \in {Dynamics(p, st, insulin_dose, meal_rate)} }) } })

\* a step that stores the new G and leaves X and I as they were
StepKeepsOnlyG(p, insulin_dose, meal_rate) ==
    Only({ [p EXCEPT !.G = sol.G, !.t = p.t + p.dt] :
           sol \in {Integrate(p, p, p.dt, insulin_dose, meal_rate)} })

\* PatientModel.step(insulin_dose, meal_rate): the patient after the call;
\* the value returned is its G
Step(p, insulin_dose, meal_rate) ==
    Only({ [p EXCEPT !.G = sol.G, !.X = sol.X, !.I = sol.I, !.t = p.t + p.dt] :
           sol \in {Integrate(p, p, p.dt, insulin_dose, meal_rate)} })

\* simulate: insulin_doses[i] if i < len(insulin_doses) else 0.0
DoseAt(insulin, idx) == IF idx < Len(insulin) THEN insulin[idx + 1] ELSE 0

\* simulate: the loop from index idx with state0 = st; the G_trace from idx on
RECURSIVE SimulateFrom(_, _, _, _, _, _)
SimulateFrom(p, st, idx, n, insulin, schedule) ==
    IF idx >= n THEN <<>>
    ELSE Only({ <<sol.G>> \o SimulateFrom(p, sol, idx + 1, n, insulin, schedule) :
                sol \in { Only({ Integrate(p, st, p.dt, insulin_dose, meal_rate) :
                                 insulin_dose \in {DoseAt(insulin, idx)},
                                 meal_rate \in {MealRate(idx * p.dt, schedule,
                                                         SimulateTau)} }) } })

\* a simulate that stores the last state of its run in the instance
SimulateStoresState(p, n, insulin, schedule) ==
    IF p.dt = 0
    THEN [patient |-> p, outcome |-> "ZeroDivisionError", G_trace |-> <<>>]
    ELSE Only({ [patient |-> [p EXCEPT !.G = tr[n], !.t = (n - 1) * p.dt + p.dt],
                 outcome |-> "ok",
                 G_trace |-> tr] :
                tr \in {SimulateFrom(p, p, 0, n, insulin, schedule)} })

\* PatientModel.simulate(insulin_doses, meal_schedule) on patient p over a
\* grid of n points: the patient after the call and the G_trace returned.
\* np.arange(0, 24, self.dt) raises for dt = 0.
Simulate(p, n, insulin, schedule) ==
    IF p.dt = 0
    THEN [patient |-> p, outcome |-> "ZeroDivisionError", G_trace |-> <<>>]
    ELSE [patient |-> [p EXCEPT !.t = (n - 1) * p.dt + p.dt],
          outcome |-> "ok",
          G_trace |-> SimulateFrom(p, p, 0, n, insulin, schedule)]

---------------------------------------------------------------------------
(* Two PatientModel instances constructed with the same parameters: twin   *)
(* is simulated in one batch call, patient is stepped one call at a time   *)
(* with the doses of the same array and the meal rates simulate uses.      *)

Dts == {0, 5}                   \* dt_hours * 60
Schedules == { <<>>, (0 :> 50), (5 :> 60), (0 :> 50) @@ (10 :> 70) }
DosePlans == { <<>>, <<10000, 10000>>, <<4000, 0, 10000, 10000>> }
StartGlucose == {9000, 12000}   \* initial_glucose

InitPatient ==
    /\ \E g0 \in StartGlucose, dt \in Dts :
          /\ patient = NewPatient(g0, DefaultInsulin, dt)
          /\ twin = NewPatient(g0, DefaultInsulin, dt)
    /\ meals \in Schedules
    /\ insulin_doses \in DosePlans
    /\ sim_out = <<>>
    /\ stepped = <<>>
    /\ max_dose = DefaultMaxDose
    /\ fis1_input = Unset
    /\ fis2_input = Unset
    /\ fis1_output = Unset
    /\ fis2_output = Unset
    /\ call = NoCall
    /\ ncalls = 0
    /\ history = <<>>
    /\ SimIdle
    /\ HfcIdle
    /\ CostIdle

\* twin.simulate(insulin_doses, meals)
SimulateTwin ==
    /\ sim_out = <<>>
    /\ \E r \in {Simulate(twin, NSteps, insulin_doses, meals)} :
          /\ twin' = r.patient
          /\ sim_out' = [outcome |-> r.outcome, G_trace |-> r.G_trace]
    /\ UNCHANGED <<fisVars, simVars, hfcVars, costVars, patient, meals,
                   insulin_doses, stepped>>

\* patient.step(dose, meal_rate) for the next time index
StepPatient ==
    /\ Len(stepped) < NSteps
    /\ \E dose \in {DoseAt(insulin_doses, Len(stepped))},
          meal_rate \in {MealRate(patient.t, meals, SimulateTau)} :
       \E nx \in {Step(patient, dose, meal_rate)} :
          /\ patient' = nx
          /\ stepped' = Append(stepped,
                 [dose |-> dose, meal_rate |-> meal_rate, G |-> nx.G,
                  dt_minutes |-> DtMinutes(patient.dt)])
    /\ UNCHANGED <<fisVars, simVars, hfcVars, costVars, twin, meals,
                   insulin_doses, sim_out>>

NextPatient == SimulateTwin \/ StepPatient

SpecPatient == InitPatient /\ [][NextPatient]_vars

\* C13: for two PatientModel instances constructed with the same
\* parameters, simulate(doses, schedule) on one and repeated step calls on
\* the other with the same per-step dose and the same per-step meal rate
\* yield the same glucose value at every time index.
C13_SimulateMatchesStep ==
    (sim_out # <<>> /\ sim_out.outcome = "ok") =>
        \A k \in 1..Len(stepped) : stepped[k].G = sim_out.G_trace[k]

\* a batch run and a fully stepped run with insulin and a meal, away from
\* the basal state
C13_Witness ==
    /\ sim_out # <<>>
    /\ sim_out.outcome = "ok"
    /\ Len(stepped) = NSteps
    /\ Len(sim_out.G_trace) = NSteps
    /\ insulin_doses # <<>>
    /\ meals # <<>>
    /\ stepped[NSteps].G # stepped[1].G
    /\ patient.X > 0

\* C14: a PatientModel constructed with a non-positive time step is rejected
\* at construction, and no call replaces a non-positive step by another
\* value.
C14_StepSizeValidated ==
    patient # <<>> =>
        /\ patient.dt > 0
        /\ \A k \in 1..Len(stepped) : stepped[k].dt_minutes = patient.dt

---------------------------------------------------------------------------
(* cost_function (src/src/tuning.py).  Glucose values, ref_level and       *)
(* min_level in mg/dL; the value returned in 1/CostScale mg/dL, rounded    *)
(* down.                                                                   *)

CostScale == 10
PenaltyFactor == 10         \* err[glucose_trace < min_level] *= 10
DefaultRef == 90            \* ref_level=90.0
DefaultFloor == 80          \* min_level=80.0

\* the largest r in lo..hi with r * r <= n  (lo * lo <= n < (hi + 1)^2)
RECURSIVE ISqrtIn(_, _, _)
ISqrtIn(lo, hi, n) ==
    IF lo >= hi THEN lo
    ELSE Only({ IF mid * mid <= n THEN ISqrtIn(mid, hi, n)
                                  ELSE ISqrtIn(lo, mid - 1, n) :
                mid \in {(lo + hi + 1) \div 2} })

\* np.sqrt, rounded down
ISqrt(n) == ISqrtIn(0, 40000, n)

\* err = glucose_trace - ref_level; err[glucose_trace < min_level] *= 10
PenalisedError(g, ref_level, min_level) ==
    IF g < min_level THEN (g - ref_level) * PenaltyFactor ELSE g - ref_level

\* the sum of err ** 2 over the trace
RECURSIVE SumSquaredError(_, _, _, _)
SumSquaredError(trace, k, ref_level, min_level) ==
    IF k > Len(trace) THEN 0
    ELSE Only({ e * e + SumSquaredError(trace, k + 1, ref_level, min_level) :
                e \in {PenalisedError(trace[k], ref_level, min_level)} })

\* cost_function(glucose_trace, ref_level, min_level) for a non-empty trace:
\* np.sqrt(np.mean(err ** 2))
CostFunction(trace, ref_level, min_level) ==
    ISqrt((SumSquaredError(trace, 1, ref_level, min_level) * CostScale * CostScale)
          \div Len(trace))

CostValues == {70, 85, 100}     \* glucose samples, mg/dL
CostRefs == {DefaultRef, 100}
CostFloors == {DefaultFloor, 90}
MaxTrace == 3                   \* samples in a trace

CostTraces == UNION { [1..n -> CostValues] : n \in 1..MaxTrace }

InitCost ==
    /\ cost_args \in [trace : CostTraces, ref_level : CostRefs,
                      min_level : CostFloors]
    /\ cost_result = <<>>
    /\ max_dose = DefaultMaxDose
    /\ fis1_input = Unset
    /\ fis2_input = Unset
    /\ fis1_output = Unset
    /\ fis2_output = Unset
    /\ call = NoCall
    /\ ncalls = 0
    /\ history = <<>>
    /\ SimIdle
    /\ HfcIdle
    /\ PatIdle

\* cost_function(glucose_trace, ref_level, min_level)
CallCost ==
    /\ cost_result = <<>>
    /\ cost_result' = <<CostFunction(cost_args.trace, cost_args.ref_level,
                                     cost_args.min_level)>>
    /\ UNCHANGED <<fisVars, simVars, hfcVars, patVars, cost_args>>

NextCost == CallCost

SpecCost == InitCost /\ [][NextCost]_vars

\* the sum over the trace of w * (g - ref)^2 with w = 10 below the floor and
\* w = 1 otherwise
RECURSIVE WeightedSquares(_, _, _, _)
WeightedSquares(trace, k, ref_level, min_level) ==
    IF k > Len(trace) THEN 0
    ELSE (IF trace[k] < min_level THEN 10 ELSE 1)
             * (trace[k] - ref_level) * (trace[k] - ref_level)
         + WeightedSquares(trace, k + 1, ref_level, min_level)

\* C15: cost_function(trace, ref, floor) is the square root of the mean of
\* w_i * (g_i - ref)^2, with w_i = 10 for the samples below floor and
\* w_i = 1 for the others.
C15_CostIsWeightedRms ==
    cost_result # <<>> =>
        cost_result[1] =
            ISqrt((WeightedSquares(cost_args.trace, 1, cost_args.ref_level,
                                   cost_args.min_level) * 100)
                  \div Len(cost_args.trace))


---------------------------------------------------------------------------
(* The closed loop: simulate_controller run on a PatientModel              *)
(* (src/src/simulation.py:9-56 with src/src/patient_model.py), the         *)
(* objective of tune_fis (src/src/tuning.py:12-15) and the cost entry of   *)
(* calculate_metrics (src/src/simulation.py:91) on the same patient.       *)
(* Times are in minutes; the patient's G is in 1/GScale mg/dL and the      *)
(* driver's readings are kept to the mg/dL.                                *)

\* a glucose value of the patient as a reading in mg/dL
ToMgdl(g) == (g + GScale \div 2) \div GScale

\* the patient's (G, X, I)
PatientState(p) == <<p.G, p.X, p.I>>

\* G_trace as the array calculate_metrics receives
TraceSeq(trace) == [k \in 1..NSteps |-> trace[k - 1]]

\* the state at the top of the loop, with the patient and the meal schedule
\* the episode is run on
InitLoop ==
    /\ controller \in Controllers
    /\ max_dose \in (IF controller = "HierarchicalFIS" THEN MaxDoses
                                                       ELSE {DefaultMaxDose})
    /\ fis1_input = Unset
    /\ fis2_input = Unset
    /\ fis1_output = Unset
    /\ fis2_output = Unset
    /\ call = NoCall
    /\ ncalls = 0
    /\ history = <<>>
    /\ \E g0 \in StartGlucose :
          /\ patient = NewPatient(g0, DefaultInsulin, StepMinutes)
          /\ patient_G = ToMgdl(g0)
    /\ twin = <<>>
    /\ meals \in Schedules
    /\ insulin_doses = <<>>
    /\ sim_out = <<>>
    /\ stepped = <<>>
    /\ pc = "loop"
    /\ i = 0
    /\ G_prev = InitialGPrev
    /\ rate_prev = InitialRatePrev
    /\ G = 0
    /\ bg_rate = 0
    /\ bg_accel = 0
    /\ G_trace = ZeroArray
    /\ doses = ZeroArray
    /\ step_returns = <<>>
    /\ ctrl_log = <<>>
    /\ HfcIdle
    /\ CostIdle

\* meal_rate for times[i], then G_trace[i] = patient.step(doses[i],
\* meal_rate), and the loop increment
PatientModelStep ==
    /\ pc = "step"
    /\ \E t \in {i * patient.dt} :
       \E meal_rate \in {MealRate(t, meals, DriverTau)} :
       \E nx \in {Step(patient, doses[i], meal_rate)} :
          /\ patient' = nx
          /\ G_trace' = [G_trace EXCEPT ![i] = ToMgdl(nx.G)]
          /\ patient_G' = ToMgdl(nx.G)
          /\ step_returns' = Append(step_returns,
                 [idx |-> i, G |-> ToMgdl(nx.G), insulin |-> doses[i],
                  logged |-> Len(ctrl_log), t |-> t, meal_rate |-> meal_rate,
                  before |-> PatientState(patient), after |-> PatientState(nx)])
    /\ i' = i + 1
    /\ pc' = IF i + 1 < NSteps THEN "loop" ELSE "done"
    /\ UNCHANGED <<fisVars, controller, G_prev, rate_prev, G, bg_rate, bg_accel,
                   doses, ctrl_log, hfcVars, costVars, twin, meals,
                   insulin_doses, sim_out, stepped>>

\* objective(params) of tune_fis on the episode's patient, before or after
\* the episode: G, _ = patient.simulate([], meals); cost_function(G)
Objective ==
    /\ sim_out = <<>>
    /\ \/ pc = "loop" /\ i = 0
       \/ pc = "done"
    /\ \E r \in {Simulate(patient, NSteps, <<>>, meals)} :
       \E scored \in {[k \in 1..NSteps |-> ToMgdl(r.G_trace[k])]} :
          /\ patient' = r.patient
          /\ sim_out' = [outcome |-> r.outcome, G_trace |-> r.G_trace,
                         cost |-> CostFunction(scored, DefaultRef, DefaultFloor)]
    /\ UNCHANGED <<fisVars, simVars, hfcVars, costVars, twin, meals,
                   insulin_doses, stepped>>

\* calculate_metrics: metrics['cost'] = cost_function(G_trace)
CalculateMetrics ==
    /\ pc = "done"
    /\ cost_result = <<>>
    /\ \E trace \in {TraceSeq(G_trace)} :
          /\ cost_args' = [trace |-> trace, ref_level |-> DefaultRef,
                           min_level |-> DefaultFloor]
          /\ cost_result' = <<CostFunction(trace, DefaultRef, DefaultFloor)>>
    /\ UNCHANGED <<fisVars, simVars, hfcVars, patVars>>

NextLoop == ControllerStep \/ PatientModelStep \/ Objective \/ CalculateMetrics

SpecLoop == InitLoop /\ [][NextLoop]_vars


\* C12: every episode run by simulate_controller ends after one iteration
\* per point of the time grid, with patient.step called exactly once per
\* time index, and returns glucose and dose traces of that length.
C12_EpisodeRunsFullGrid ==
    /\ Len(step_returns) <= NSteps
    /\ \A k \in 1..Len(step_returns) : step_returns[k].idx = k - 1
    /\ (pc \notin {"loop", "step"}) =>
          /\ pc = "done"
          /\ Len(step_returns) = NSteps
          /\ DOMAIN G_trace = 0..(NSteps - 1)
          /\ DOMAIN doses = 0..(NSteps - 1)

\* the episode started from G = Gb, X = 0, I = Ib, has no meals and every
\* dose delivered so far is 0
BasalEpisode ==
    /\ meals = <<>>
    /\ step_returns # <<>>
    /\ step_returns[1].before = <<BasalGlucose, 0, patient.Ib>>
    /\ \A k \in 1..Len(step_returns) : step_returns[k].insulin = 0

\* C16: for a patient initialised at G = 90 with basal insulin and X = 0,
\* an empty meal schedule and a dose of 0 at every step, every glucose value
\* of the closed-loop trace is within 1 mg/dL of 90.
C16_BasalFixedPoint ==
    BasalEpisode =>
        \A k \in 1..Len(step_returns) :
            /\ step_returns[k].after[1] - BasalGlucose <= GScale
            /\ BasalGlucose - step_returns[k].after[1] <= GScale
            /\ G_trace[k - 1] \in 89..91

\* a finished zero-dose episode from the basal state
C16_Witness ==
    /\ BasalEpisode
    /\ pc = "done"
    /\ Len(step_returns) = NSteps
    /\ patient.t = NSteps * StepMinutes

\* C18: the patient's (G, X, I) is changed only by its own step: the dose
\* computation, the driver's bookkeeping, meal_absorption, the scoring
\* functions and PatientModel.simulate leave G, X and I as they were.
C18_OnlyStepChangesPatient ==
    [][ Len(step_returns') = Len(step_returns)
            => PatientState(patient') = PatientState(patient) ]_vars

\* an episode that moved the patient away from its initial state, followed
\* by a simulate call whose run ends elsewhere and by the scoring
C18_Witness ==
    /\ pc = "done"
    /\ sim_out # <<>>
    /\ sim_out.outcome = "ok"
    /\ cost_result # <<>>
    /\ PatientState(patient) # step_returns[1].before
    /\ sim_out.G_trace[NSteps] # patient.G
    /\ patient.t = 2 * NSteps * StepMinutes - StepMinutes + StepMinutes

\* C20: for the same meal schedule and the same time t, the meal rate the
\* driver passes to patient.step equals the meal rate PatientModel.simulate
\* uses at t.
C20_SameMealRate ==
    \A k \in 1..Len(step_returns) :
        step_returns[k].meal_rate
            = MealRate(step_returns[k].t, meals, SimulateTau)


---------------------------------------------------------------------------
(* One HierarchicalFIS instance called several times: every call finds the *)
(* inputs and outputs the earlier calls left in fis1 and fis2.             *)

MaxHistory == 2     \* compute_dose calls made on the instance

\* (level, rate, accel) of the calls: two for which the first stage is
\* degenerate at the default max_dose, five with different doses
HistoryArgs == { <<0, 0, 0>>, <<70, 0, 0>>, <<87, -50, 10>>, <<90, 0, 0>>,
                 <<130, 0, 0>>, <<200, 0, 0>>, <<118, 560, 1120>> }

\* the next call fis.compute_dose(level, rate, accel) on the instance
RepeatedCall ==
    /\ ncalls < MaxHistory
    /\ \E args \in HistoryArgs :
          \E r \in {ComputeDoseOn(max_dose, FisState, args[1], args[2], args[3])} :
              /\ call' = CallRecord(args[1], args[2], args[3], r)
              /\ history' = Append(history, CallRecord(args[1], args[2], args[3], r))
              /\ fis1_input' = r.fis.in1
              /\ fis2_input' = r.fis.in2
              /\ fis1_output' = r.fis.out1
              /\ fis2_output' = r.fis.out2
    /\ ncalls' = ncalls + 1
    /\ UNCHANGED <<max_dose, simVars, hfcVars, patVars, costVars>>

NextFisHistory == RepeatedCall

SpecFisHistory == InitFIS /\ [][NextFisHistory]_vars

\* C17: the value compute_dose returns depends only on its three arguments
\* and max_dose: whatever calls the instance received before, every call
\* ends as the same call on a newly constructed instance does.
C17_NoLeakBetweenCalls ==
    \A k \in 1..Len(history) :
        \E r \in {ComputeDose(max_dose, history[k].level, history[k].rate,
                              history[k].accel)} :
            /\ history[k].outcome = r.outcome
            /\ history[k].dose = r.dose
            /\ history[k].pre_dose = r.pre_dose

\* a call that returned a dose on an instance whose previous call had a
\* degenerate first stage
C17_Witness ==
    /\ Len(history) = MaxHistory
    /\ history[MaxHistory].outcome = "ok"
    /\ history[MaxHistory - 1].outcome = "ValueError"
    /\ fis1_input = <<history[MaxHistory].level, history[MaxHistory].rate>>
    /\ fis1_output = <<history[MaxHistory].pre_dose>>
    /\ fis2_output = <<history[MaxHistory].dose>>
    /\ history[MaxHistory].dose > 0

====
